---- MODULE Spec2Model ----
(***************************************************************************)
(* Model of survey.go: the prompt loop Ask and its one-question wrapper    *)
(* AskOne.  Every call Ask makes on a collaborator (Prompt.Prompt,         *)
(* Prompt.Error, Prompt.Cleanup, Question.Convert, Question.Validate,      *)
(* core.WriteAnswer) is one step; the collaborator's answer is chosen      *)
(* nondeterministically, and the call is appended to the history `calls`.  *)
(***************************************************************************)
EXTENDS Integers, Sequences, FiniteSets, TLC

\* ---------------------------------------------------------------- bounds
\* longest question list handed to Ask
MaxQ == 2
\* most conversion/validation failures the collaborators produce per question
MaxFail == 2

\* ---------------------------------------------------------------- values
\* Go's nil (no error, no function, no reference)
Nil == "nil"
\* raw answers Prompt.Prompt() can return
RawValues == {"r1", "r2"}
\* values Question.Convert can return
ConvValues == {"c1", "c2"}
\* error values Prompt.Prompt(), Prompt.Error(), Prompt.Cleanup() and
\* core.WriteAnswer can return
Errs == {"e1", "e2"}
\* the error of the k-th failed Convert or Validate call of a question: Ask
\* compares an error with nil and otherwise only passes it on, so the failed
\* attempts are given errors that differ from each other and from Errs
InvalidErr(k) == "invalid" \o ToString(k)
\* errors.New("cannot call Ask() with a nil reference to record the answers")
ConfigErr == "cannot call Ask() with a nil reference to record the answers"
\* the Prompt objects a caller can own
Prompts == {"p1", "p2"}
\* a non-nil container reference
Ref == "ref"
\* Question.Name: 0 is the empty string of a Question built without a Name
EmptyName == 0
Names == 0..MaxQ

\* what Prompt.Error(inv) can return: nil, an error of its own, or the error
\* it was given
ErrorResults(inv) == {Nil} \cup Errs \cup {inv}

\* type Question struct { Name; Prompt; Validate; Convert }
Question(name, p, v, c) == [Name |-> name, Prompt |-> p, Validate |-> v, Convert |-> c]

\* the Validator / Converter a caller can pass: nil or a function
Validators == {Nil, "v"}
Converters == {Nil, "c"}

\* Validators that are functions of their argument alone: "vd1" rejects the
\* first raw value and what is converted from it, "vd2" rejects every value
DetValidators == {"vd1", "vd2"}
Rejected(v) == IF v = "vd1" THEN {"r1", "c1"} ELSE RawValues \cup ConvValues
Rejection == "rejected"

\* what a call v(arg) can return: a function of arg for a deterministic
\* validator, anything for the others (k numbers the failures of a question)
ValidateResults(v, arg, k) ==
    IF v \in DetValidators
    THEN IF arg \in Rejected(v) THEN {Rejection} ELSE {Nil}
    ELSE {Nil, InvalidErr(k)}

\* the question lists a caller can pass to Ask: names unique within the list
\* (the prompt object's answers are chosen call by call, so which object a
\* question of a list holds does not restrict what the list can do)
QuestionListsOf(V) ==
    UNION { { [k \in 1..n |-> Question(k, "p1", vs[k], cs[k])] :
                vs \in [1..n -> V], cs \in [1..n -> Converters] } :
            n \in 0..MaxQ }
QuestionLists == QuestionListsOf(Validators)

VARIABLES
    entry,          \* "Ask" or "AskOne": the function the caller called
    args,           \* the arguments of that call
    qs,             \* Ask's parameter qs
    t,              \* Ask's parameter t
    container,      \* what t refers to: Name -> value written by core.WriteAnswer
    pc,             \* position in the code ("return": Ask has returned)
    i,              \* index of q in `for _, q := range qs`
    ans,            \* Ask's local ans
    convertedAns,   \* Ask's local convertedAns
    err,            \* Ask's local err declared at line 53
    invalid,        \* the loops' local invalid
    ret,            \* what Ask returned
    result,         \* what AskOne returned to its caller
    fails,          \* failed Convert/Validate calls of the current question
    calls,          \* history: the collaborator calls of the current question
    binds,          \* history: the successful WriteAnswer calls of the run
    cleaned,        \* history: the questions Cleanup was called for, in order
    allOk           \* history: no collaborator call of the run has failed

vars == <<entry, args, qs, t, container, pc, i, ans, convertedAns, err, invalid,
          ret, result, fails, calls, binds, cleaned, allOk>>

NotYet == "notyet"

\* a recorded call: the question index, the operation, its argument and results
Call(q, op, arg, val, e) == [q |-> q, op |-> op, arg |-> arg, val |-> val, err |-> e]

\* the state before the call, for a caller whose validators are taken from V
InitOf(V) ==
    /\ entry \in {"Ask", "AskOne"}
    /\ \/ /\ entry = "Ask"
          /\ \E l \in QuestionListsOf(V), r \in {Nil, Ref} : args = [qs |-> l, t |-> r]
       \/ /\ entry = "AskOne"
          /\ \E p \in Prompts, r \in {Nil, Ref}, v \in V, c \in Converters :
                args = [p |-> p, t |-> r, v |-> v, c |-> c]
    /\ qs = <<>>
    /\ t = Nil
    /\ container = [n \in Names |-> Nil]
    /\ pc = "call"
    /\ i = 0
    /\ ans = Nil
    /\ convertedAns = Nil
    /\ err = Nil
    /\ invalid = Nil
    /\ ret = NotYet
    /\ result = NotYet
    /\ fails = 0
    /\ calls = <<>>
    /\ binds = <<>>
    /\ cleaned = <<>>
    /\ allOk = TRUE

Init == InitOf(Validators)

\* the same, for a caller all of whose validators are deterministic
DetInit == InitOf(DetValidators \cup {Nil})

\* ------------------------------------------------------- helpers of Ask
\* q of `for _, q := range qs`
q == qs[i]

\* the calls made so far with one more appended
Record(c) == Append(calls, c)

\* Ask without its nil check
ContainerMissing_Skipped(r) == FALSE

\* `if t == nil` (line 45)
ContainerMissing(r) == r = Nil

\* an error result that is not looked at
Failed_Ignored(e) == FALSE

\* `if err != nil` after a Prompt.Prompt(), Prompt.Error() or WriteAnswer call
Failed(e) == e # Nil

\* a conversion loop with its condition turned round
ConvertLoopCond_Inverted(inv) == inv = Nil

\* a conversion loop that never retries
ConvertLoopCond_Never(inv) == FALSE

\* the loop conditions `invalid != nil` (lines 65 and 84)
ConvertLoopCond(inv) == inv # Nil
\* a validation loop that never retries, one that retries whatever the
\* validator says, and one with its condition turned round
ValidateLoopCond_Always(inv) == TRUE
ValidateLoopCond_Never(inv) == FALSE
ValidateLoopCond_Inverted(inv) == inv = Nil
ValidateLoopCond(inv) == inv # Nil

\* `if q.Validate != nil` (line 82): where control goes once conversion is over
AfterConvert(qq) == IF qq.Validate # Nil THEN "validate" ELSE "cleanup"

\* `if q.Convert != nil` (line 61): where control goes after the first prompt
AfterPrompt(qq) == IF qq.Convert # Nil THEN "convert" ELSE AfterConvert(qq)

\* the argument of q.Convert (line 65), q.Validate (line 84),
\* q.Prompt.Cleanup (line 101) and the value given to core.WriteAnswer (110)
\* a conversion retry that converts the previous result again
ConvertArg_Stale == convertedAns
ConvertArg == ans
\* a validation loop that checks the newest raw answer
ValidateArg_Raw == ans
\* a validation loop that, with no converter, checks the answer of its own
\* re-prompt
ValidateArg_Latest == IF q.Convert = Nil THEN ans ELSE convertedAns
ValidateArg == convertedAns
\* a cleanup that is given the accepted value
CleanupArg_Converted == convertedAns
CleanupArg == ans
\* a bind that stores the raw answer
BindValue_Raw == ans
BindValue == convertedAns

\* a cleanup whose result is tested: err = q.Prompt.Cleanup(ans)
ErrAfterCleanup_Assigned(e) == e

\* the err that `if err != nil` (line 104) tests after q.Prompt.Cleanup(ans)
\* has returned e: the call's result is dropped, err is still line 53's
ErrAfterCleanup(e) == err

\* core.WriteAnswer(t, name, value) when it succeeds: the external binder
\* stores value at the place of the container that name identifies
WriteAnswer(c, name, value) == [c EXCEPT ![name] = value]

\* an abort that clears what earlier questions wrote
ReturnErr_Rollback(e) ==
    /\ ret' = e
    /\ pc' = "return"
    /\ container' = [n \in Names |-> Nil]

\* an abort that still stores the raw answer it has
ReturnErr_StoreRaw(e) ==
    /\ ret' = e
    /\ pc' = "return"
    /\ container' = [container EXCEPT ![q.Name] = ans]

\* `return e` out of the loop body: Ask ends and writes nothing more
ReturnErr(e) ==
    /\ ret' = e
    /\ pc' = "return"
    /\ UNCHANGED container

\* a loop that steps over a question
NextQuestion_Skip(k) ==
    /\ i' = k + 1
    /\ IF k + 1 > Len(qs)
       THEN /\ ret' = Nil
            /\ pc' = "return"
       ELSE /\ pc' = "prompt"
            /\ UNCHANGED ret

\* a loop that stops one question short
NextQuestion_Short(k) ==
    /\ i' = k
    /\ IF k >= Len(qs)
       THEN /\ ret' = Nil
            /\ pc' = "return"
       ELSE /\ pc' = "prompt"
            /\ UNCHANGED ret

\* the end of one iteration of `for _, q := range qs` (line 116), and
\* `return nil` (line 118) once the range is exhausted
NextQuestion(k) ==
    /\ i' = k
    /\ IF k > Len(qs)
       THEN /\ ret' = Nil
            /\ pc' = "return"
       ELSE /\ pc' = "prompt"
            /\ UNCHANGED ret

\* AskOne as its comment describes it: "without performing validation"
AskOneQuestions_NoValidate(p, v, c) == <<Question(EmptyName, p, Nil, c)>>

\* the one-element list AskOne builds (line 33)
AskOneQuestions(p, v, c) == <<Question(EmptyName, p, v, c)>>

\* what AskOne returns given Ask's error (lines 34-38)
AskOneResult(e) == IF e # Nil THEN e ELSE Nil

\* ------------------------------------------------------------- actions
\* AskOne calls Ask([]*Question{{Prompt: p, Validate: v, Convert: c}}, t)
AskOneCall ==
    /\ pc = "call"
    /\ entry = "AskOne"
    /\ qs' = AskOneQuestions(args.p, args.v, args.c)
    /\ t' = args.t
    /\ pc' = "ask"
    /\ UNCHANGED <<entry, args, container, i, ans, convertedAns, err, invalid,
                   ret, result, fails, calls, binds, cleaned, allOk>>

\* the caller calls Ask(qs, t) directly
AskCall ==
    /\ pc = "call"
    /\ entry = "Ask"
    /\ qs' = args.qs
    /\ t' = args.t
    /\ pc' = "ask"
    /\ UNCHANGED <<entry, args, container, i, ans, convertedAns, err, invalid,
                   ret, result, fails, calls, binds, cleaned, allOk>>

\* Ask's nil check, then the head of the range loop
AskEnter ==
    /\ pc = "ask"
    /\ IF ContainerMissing(t)
       THEN /\ ret' = ConfigErr
            /\ pc' = "return"
            /\ UNCHANGED i
       ELSE NextQuestion(1)
    /\ UNCHANGED <<entry, args, qs, t, container, ans, convertedAns, err, invalid,
                   result, fails, calls, binds, cleaned, allOk>>

\* ans, err := q.Prompt.Prompt(); convertedAns := ans; if err != nil return
\* (a failing call returns a nil value: Ask never reads the value it got
\* together with an error, here or from Convert)
PromptFirst ==
    /\ pc = "prompt"
    /\ \E v \in RawValues \cup {Nil} : \E e \in Errs \cup {Nil} :
        /\ (v = Nil) <=> (e # Nil)
        /\ calls' = <<Call(i, "prompt", Nil, v, e)>>
        /\ allOk' = (allOk /\ e = Nil)
        /\ ans' = v
        /\ convertedAns' = v
        /\ err' = e
        /\ IF Failed(e)
           THEN ReturnErr(e)
           ELSE /\ pc' = AfterPrompt(q)
                /\ UNCHANGED <<ret, container>>
    /\ invalid' = Nil
    /\ fails' = 0
    /\ UNCHANGED <<entry, args, qs, t, i, result, binds, cleaned>>

\* convertedAns, invalid = q.Convert(ans), as the loop's init and post
\* statement, and the loop condition
Convert ==
    /\ pc = "convert"
    /\ \E v \in ConvValues \cup {Nil} : \E e \in {Nil, InvalidErr(fails + 1)} :
        /\ (v = Nil) <=> (e # Nil)
        /\ e # Nil => fails < MaxFail
        /\ calls' = Record(Call(i, "convert", ConvertArg, v, e))
        /\ allOk' = (allOk /\ e = Nil)
        /\ convertedAns' = v
        /\ invalid' = e
        /\ fails' = IF e # Nil THEN fails + 1 ELSE fails
        /\ pc' = IF ConvertLoopCond(e) THEN "cerror" ELSE AfterConvert(q)
    /\ UNCHANGED <<entry, args, qs, t, container, i, ans, err, ret, result,
                   binds, cleaned>>

\* err := q.Prompt.Error(invalid) in the conversion loop: this err is a new
\* variable of the loop body, the err of line 53 keeps its value
ConvertError ==
    /\ pc = "cerror"
    /\ \E e \in ErrorResults(invalid) :
        /\ calls' = Record(Call(i, "error", invalid, Nil, e))
        /\ allOk' = (allOk /\ e = Nil)
        /\ IF Failed(e)
           THEN ReturnErr(e)
           ELSE /\ pc' = "cprompt"
                /\ UNCHANGED <<ret, container>>
    /\ UNCHANGED <<entry, args, qs, t, i, ans, convertedAns, err, invalid,
                   result, fails, binds, cleaned>>

\* ans, err = q.Prompt.Prompt() in the conversion loop (err: the loop body's)
ConvertPrompt ==
    /\ pc = "cprompt"
    /\ \E v \in RawValues \cup {Nil} : \E e \in Errs \cup {Nil} :
        /\ (v = Nil) <=> (e # Nil)
        /\ calls' = Record(Call(i, "prompt", Nil, v, e))
        /\ allOk' = (allOk /\ e = Nil)
        /\ ans' = v
        /\ IF Failed(e)
           THEN ReturnErr(e)
           ELSE /\ pc' = "convert"
                /\ UNCHANGED <<ret, container>>
    /\ UNCHANGED <<entry, args, qs, t, i, convertedAns, err, invalid, result, fails, binds, cleaned>>

\* invalid := q.Validate(convertedAns), as the loop's init and post statement,
\* and the loop condition
Validate ==
    /\ pc = "validate"
    /\ \E e \in ValidateResults(q.Validate, ValidateArg, fails + 1) :
        /\ e # Nil => fails < MaxFail
        /\ calls' = Record(Call(i, "validate", ValidateArg, Nil, e))
        /\ allOk' = (allOk /\ e = Nil)
        /\ invalid' = e
        /\ fails' = IF e # Nil THEN fails + 1 ELSE fails
        /\ pc' = IF ValidateLoopCond(e) THEN "verror" ELSE "cleanup"
    /\ UNCHANGED <<entry, args, qs, t, container, i, ans, convertedAns, err,
                   ret, result, binds, cleaned>>

\* err := q.Prompt.Error(invalid) in the validation loop
ValidateError ==
    /\ pc = "verror"
    /\ \E e \in ErrorResults(invalid) :
        /\ calls' = Record(Call(i, "error", invalid, Nil, e))
        /\ allOk' = (allOk /\ e = Nil)
        /\ IF Failed(e)
           THEN ReturnErr(e)
           ELSE /\ pc' = "vprompt"
                /\ UNCHANGED <<ret, container>>
    /\ UNCHANGED <<entry, args, qs, t, i, ans, convertedAns, err, invalid,
                   result, fails, binds, cleaned>>

\* ans, err = q.Prompt.Prompt() in the validation loop (err: the loop body's)
ValidatePrompt ==
    /\ pc = "vprompt"
    /\ \E v \in RawValues \cup {Nil} : \E e \in Errs \cup {Nil} :
        /\ (v = Nil) <=> (e # Nil)
        /\ calls' = Record(Call(i, "prompt", Nil, v, e))
        /\ allOk' = (allOk /\ e = Nil)
        /\ ans' = v
        /\ IF Failed(e)
           THEN ReturnErr(e)
           ELSE /\ pc' = "validate"
                /\ UNCHANGED <<ret, container>>
    /\ UNCHANGED <<entry, args, qs, t, i, convertedAns, err, invalid, result, fails, binds, cleaned>>

\* q.Prompt.Cleanup(ans), its result dropped; then `if err != nil return err`
\* on the err of line 53
Cleanup ==
    /\ pc = "cleanup"
    /\ \E e \in Errs \cup {Nil} :
        /\ calls' = Record(Call(i, "cleanup", CleanupArg, Nil, e))
        /\ allOk' = (allOk /\ e = Nil)
        /\ IF ErrAfterCleanup(e) # Nil
           THEN ReturnErr(ErrAfterCleanup(e))
           ELSE /\ pc' = "bind"
                /\ UNCHANGED <<ret, container>>
    /\ cleaned' = Append(cleaned, i)
    /\ UNCHANGED <<entry, args, qs, t, i, ans, convertedAns, err, invalid,
                   result, fails, binds>>

\* err = core.WriteAnswer(t, q.Name, convertedAns); if err != nil return err;
\* otherwise on to the next question, or `return nil` after the last one
Bind ==
    /\ pc = "bind"
    /\ \E e \in Errs \cup {Nil} :
        /\ calls' = Record(Call(i, "bind", <<q.Name, BindValue>>, Nil, e))
        /\ allOk' = (allOk /\ e = Nil)
        /\ err' = e
        /\ IF Failed(e)
           THEN /\ ReturnErr(e)
                /\ UNCHANGED <<i, binds>>
           ELSE /\ container' = WriteAnswer(container, q.Name, BindValue)
                /\ binds' = Append(binds, [q |-> i, name |-> q.Name, value |-> BindValue])
                /\ NextQuestion(i + 1)
    /\ UNCHANGED <<entry, args, qs, t, ans, convertedAns, invalid, result, fails,
                   cleaned>>

\* Ask has returned to AskOne: `if err != nil return err; return nil`
AskOneReturn ==
    /\ pc = "return"
    /\ entry = "AskOne"
    /\ result' = AskOneResult(ret)
    /\ pc' = "done"
    /\ UNCHANGED <<entry, args, qs, t, container, i, ans, convertedAns, err,
                   invalid, ret, fails, calls, binds, cleaned, allOk>>

Next ==
    \/ AskOneCall
    \/ AskCall
    \/ AskEnter
    \/ PromptFirst
    \/ Convert
    \/ ConvertError
    \/ ConvertPrompt
    \/ Validate
    \/ ValidateError
    \/ ValidatePrompt
    \/ Cleanup
    \/ Bind
    \/ AskOneReturn

Spec == Init /\ [][Next]_vars

\* every call Ask makes returns: Ask is never left waiting in a call for ever
FairSpec == Spec /\ WF_vars(Next)

\* Ask and AskOne called with deterministic validators
DetSpec == DetInit /\ [][Next]_vars

\* ------------------------------------------------------------ properties
\* Ask has returned
Returned == pc \in {"return", "done"}

\* the positions of the current question's calls of one operation
CallsAt(op) == {n \in 1..Len(calls) : calls[n].op = op}

\* a call of the history failed
FailedCall(c) == c.err # Nil

\* the last element of a non-empty history
Last(s) == s[Len(s)]

\* C1: with a nil container Ask returns the configuration error and makes no
\* Prompt call (prompt, error, cleanup) and no bind call, whatever the list.
C1_NilContainer ==
    args.t = Nil =>
        /\ calls = <<>>
        /\ binds = <<>>
        /\ cleaned = <<>>
        /\ container = [n \in Names |-> Nil]
        /\ Returned => ret = ConfigErr

\* C1's case: Ask has returned on a nil container and a non-empty list
C1_Witness == Returned /\ t = Nil /\ Len(qs) > 0 /\ ret = ConfigErr

\* C2: non-empty list, valid container, every collaborator call succeeding:
\* Ask returns nil, and the binds made are one per question, in list order,
\* each value being what the container holds under the question's name.
C2_AllSucceed ==
    (Returned /\ t # Nil /\ Len(qs) > 0 /\ allOk) =>
        /\ ret = Nil
        /\ Len(binds) = Len(qs)
        /\ \A j \in 1..Len(qs) :
            /\ binds[j].q = j
            /\ binds[j].name = qs[j].Name
            /\ binds[j].value # Nil
            /\ container[qs[j].Name] = binds[j].value
        /\ \A n \in Names :
            (\A j \in 1..Len(qs) : qs[j].Name # n) => container[n] = Nil

\* C2's case: a list of MaxQ questions answered without any failure
C2_Witness == Returned /\ t # Nil /\ Len(qs) = MaxQ /\ allOk /\ ret = Nil

\* C3: a failed prompt(), error() or bind call is the last call Ask makes:
\* Ask has returned exactly that error, and nothing of a later question has
\* been called or bound.
C3_FatalAborts ==
    \A n \in 1..Len(calls) :
        (calls[n].op \in {"prompt", "error", "bind"} /\ FailedCall(calls[n])) =>
            /\ n = Len(calls)
            /\ Returned
            /\ ret = calls[n].err
            /\ i = calls[n].q
            /\ \A m \in 1..Len(calls) : calls[m].q = i
            /\ \A b \in 1..Len(binds) : binds[b].q < i
            /\ \A c \in 1..Len(cleaned) : cleaned[c] <= i

\* C3's case: Ask aborted on a failed call while a later question was waiting
C3_Witness ==
    /\ Returned
    /\ calls # <<>>
    /\ Last(calls).op \in {"prompt", "error", "bind"}
    /\ FailedCall(Last(calls))
    /\ i < Len(qs)

\* C4: after an abort in question i the container holds the values bound for
\* the questions before i, as they were bound, and nothing for i and later.
C4_NoRollback ==
    (Returned /\ ret # Nil) =>
        /\ Len(binds) = IF i = 0 THEN 0 ELSE i - 1
        /\ \A j \in 1..Len(qs) :
            container[qs[j].Name] = IF j < i THEN binds[j].value ELSE Nil
        /\ \A j \in 1..Len(binds) : binds[j].q = j /\ binds[j].value # Nil

\* C4's case: an abort in the second question, the first one bound
C4_Witness == Returned /\ ret # Nil /\ i = 2 /\ Len(binds) = 1

\* the greatest element of a non-empty set of positions
Max(S) == CHOOSE x \in S : \A y \in S : y <= x

\* the question the calls of the history were made for
LogQ == qs[calls[1].q]

\* the failed calls of one operation in the current question
FailsAt(op) == {n \in CallsAt(op) : FailedCall(calls[n])}

\* the current question has reached its bind call
BindCalled == CallsAt("bind") # {}

\* the raw value of the latest prompt() before position n
LastRawBefore(n) == calls[Max({m \in CallsAt("prompt") : m < n})].val

\* C5 as stated: a question with m failed conversions that reaches bind has
\* had exactly m+1 prompt() calls and m error() calls.
C5_AsStated ==
    (BindCalled /\ LogQ.Convert # Nil) =>
        /\ Cardinality(CallsAt("prompt")) = Cardinality(FailsAt("convert")) + 1
        /\ Cardinality(CallsAt("error")) = Cardinality(FailsAt("convert"))

\* C5, amended: a question whose validate (if set) never fails and whose
\* convert fails m times and then succeeds has had, when bind is called,
\* exactly m+1 prompt() calls and m error() calls; each failed convert is
\* followed by error() on that conversion error, then prompt(), then convert
\* on the new raw value; one convert call succeeded, the last one.
C5_ConvertRetries ==
    /\ \A n \in FailsAt("convert") :
        /\ n + 1 <= Len(calls) =>
              calls[n + 1].op = "error" /\ calls[n + 1].arg = calls[n].err
        /\ n + 2 <= Len(calls) => calls[n + 2].op = "prompt"
        /\ n + 3 <= Len(calls) =>
              calls[n + 3].op = "convert" /\ calls[n + 3].arg = calls[n + 2].val
    /\ (BindCalled /\ LogQ.Convert # Nil /\ FailsAt("validate") = {}) =>
        /\ Cardinality(CallsAt("prompt")) = Cardinality(FailsAt("convert")) + 1
        /\ Cardinality(CallsAt("error")) = Cardinality(FailsAt("convert"))
        /\ CallsAt("convert") \ FailsAt("convert") = {Max(CallsAt("convert"))}

\* C5's case: two failed conversions with different errors, then a success,
\* and the question has reached bind
C5_Witness ==
    /\ BindCalled
    /\ FailsAt("validate") = {}
    /\ Cardinality(FailsAt("convert")) = 2
    /\ \E n, m \in FailsAt("convert") : calls[n].err # calls[m].err
    /\ Cardinality(CallsAt("prompt")) = 3
    /\ Cardinality(CallsAt("error")) = 2

C7_LatestRaw ==
    (calls # <<>> /\ LogQ.Convert = Nil) =>
        /\ \A n \in CallsAt("validate") : calls[n].arg = LastRawBefore(n)
        /\ \A n \in CallsAt("bind") : calls[n].arg = <<LogQ.Name, LastRawBefore(n)>>

\* C8: a question without validate is bound at most once, to the value its
\* one successful (and last) convert call returned or, without convert, to
\* the raw value of its one prompt() call; a successful bind puts exactly
\* that value into the container.
C8_NoValidateBinds ==
    (calls # <<>> /\ LogQ.Validate = Nil) =>
        /\ Cardinality(CallsAt("bind")) <= 1
        /\ \A n \in CallsAt("bind") :
            /\ IF LogQ.Convert # Nil
               THEN /\ CallsAt("convert") # {}
                    /\ CallsAt("convert") \ FailsAt("convert")
                          = {Max(CallsAt("convert"))}
                    /\ calls[n].arg
                          = <<LogQ.Name, calls[Max(CallsAt("convert"))].val>>
                    /\ calls[n].arg[2] \in ConvValues
               ELSE /\ CallsAt("prompt") = {1}
                    /\ calls[n].arg = <<LogQ.Name, calls[1].val>>
                    /\ calls[n].arg[2] \in RawValues
            /\ ~FailedCall(calls[n]) =>
                /\ binds # <<>>
                /\ Last(binds) = [q |-> calls[1].q, name |-> calls[n].arg[1],
                                  value |-> calls[n].arg[2]]
                /\ container[LogQ.Name] = calls[n].arg[2]

\* C8's case: a question with convert and no validate, bound after a failed
\* conversion
C8_Witness ==
    /\ BindCalled
    /\ LogQ.Validate = Nil
    /\ LogQ.Convert # Nil
    /\ FailsAt("convert") # {}
    /\ ~FailedCall(Last(calls))

BoundNow == calls # <<>> /\ Last(calls).op = "bind" /\ ~FailedCall(Last(calls))

C12_OneAtATime ==
    /\ \A n \in 1..Len(calls) : calls[n].q = calls[1].q
    /\ \A j \in 1..Len(binds) : binds[j].q = j
    /\ calls # <<>> =>
        /\ calls[1].q \in 1..Len(qs)
        /\ Len(binds) >= calls[1].q - 1
        /\ Len(binds) <= calls[1].q
        /\ Len(binds) = calls[1].q <=> BoundNow
        /\ ~BoundNow => i = calls[1].q
        /\ BoundNow => i = calls[1].q + 1
    /\ pc \in {"prompt", "convert", "cerror", "cprompt", "validate", "verror",
               "vprompt", "cleanup", "bind"} =>
        /\ Len(binds) = i - 1
        /\ pc # "prompt" => (calls # <<>> /\ calls[1].q = i)

\* C12's case: the second question is being processed, the first one bound
C12_Witness ==
    /\ calls # <<>>
    /\ calls[1].q = 2
    /\ Len(calls) > 1
    /\ Len(binds) = 1
    /\ binds[1].q = 1

\* C13: a failed convert or validate call never ends Ask: its error goes to
\* error() and, that call succeeding, prompt() follows; an error Ask returns
\* is the configuration error or the error of the failed prompt(), error()
\* or bind call that was Ask's last call.
C13_InvalidNotReturned ==
    /\ \A n \in FailsAt("convert") \cup FailsAt("validate") :
        /\ n = Len(calls) => pc \in {"cerror", "verror"} /\ ret = NotYet
        /\ n + 1 <= Len(calls) =>
              calls[n + 1].op = "error" /\ calls[n + 1].arg = calls[n].err
        /\ (n + 1 = Len(calls) /\ ~FailedCall(calls[n + 1])) =>
              pc \in {"cprompt", "vprompt"} /\ ret = NotYet
        /\ n + 2 <= Len(calls) => calls[n + 2].op = "prompt"
    /\ (Returned /\ ret # Nil) =>
        \/ ret = ConfigErr /\ t = Nil /\ calls = <<>>
        \/ /\ calls # <<>>
           /\ Last(calls).op \in {"prompt", "error", "bind"}
           /\ FailedCall(Last(calls))
           /\ ret = Last(calls).err

\* C13's case: Ask returned nil although a conversion and a validation of
\* the last question had failed
C13_Witness ==
    /\ Returned
    /\ ret = Nil
    /\ FailsAt("convert") # {}
    /\ FailsAt("validate") # {}

\* C14: when Ask returns nil every question has been bound exactly once, in
\* order; and whenever a question is bound, its last convert call (if it has
\* a convert) succeeded and returned the value bound, and its last validate
\* call (if it has a validate) accepted exactly the value bound.
C14_BoundValueAccepted ==
    /\ (Returned /\ ret = Nil) =>
        /\ Len(binds) = Len(qs)
        /\ \A j \in 1..Len(qs) :
              binds[j].q = j /\ container[qs[j].Name] = binds[j].value
    /\ Cardinality(CallsAt("bind")) <= 1
    /\ \A n \in CallsAt("bind") :
        /\ LogQ.Convert # Nil =>
            /\ CallsAt("convert") # {}
            /\ ~FailedCall(calls[Max(CallsAt("convert"))])
            /\ calls[Max(CallsAt("convert"))].val = calls[n].arg[2]
        /\ LogQ.Validate # Nil =>
            /\ CallsAt("validate") # {}
            /\ ~FailedCall(calls[Max(CallsAt("validate"))])
            /\ calls[Max(CallsAt("validate"))].arg = calls[n].arg[2]

\* C14's case: Ask returned nil on a full list whose last question was
\* rejected by its validator before it was accepted
C14_Witness ==
    /\ Returned
    /\ ret = Nil
    /\ Len(qs) = MaxQ
    /\ LogQ.Convert # Nil
    /\ FailsAt("validate") # {}

\* C15: every convert call comes right after a successful prompt() and gets
\* the raw value that call returned; with a convert set, every validate call
\* comes after all convert calls, the last of which succeeded, and gets the
\* value that successful convert returned.
C15_ConvertBeforeValidate ==
    /\ \A n \in CallsAt("convert") :
        /\ n > 1
        /\ calls[n - 1].op = "prompt"
        /\ ~FailedCall(calls[n - 1])
        /\ calls[n].arg = calls[n - 1].val
    /\ \A n \in CallsAt("validate") :
        LogQ.Convert # Nil =>
            /\ CallsAt("convert") # {}
            /\ Max(CallsAt("convert")) < n
            /\ CallsAt("convert") \ FailsAt("convert") = {Max(CallsAt("convert"))}
            /\ calls[n].arg = calls[Max(CallsAt("convert"))].val
    /\ \A n \in CallsAt("validate") :
        LogQ.Convert = Nil => CallsAt("convert") = {}

\* C15's case: a validate call on a value converted, after a failed
\* conversion, from a second raw answer that differs from the first
C15_Witness ==
    /\ CallsAt("validate") # {}
    /\ FailsAt("convert") # {}
    /\ \E n \in CallsAt("convert") :
        ~FailedCall(calls[n]) /\ calls[n].arg # calls[1].val

\* one step as C16 allows it: the container changes only in the step that
\* makes the bind call, which comes right after the question's cleanup call,
\* is the question's first bind call and writes one value under the
\* question's name; no question is bound twice
C16_Step ==
    /\ container' # container =>
        /\ pc = "bind"
        /\ calls # <<>>
        /\ Last(calls).op = "cleanup"
        /\ CallsAt("bind") = {}
        /\ Last(calls').op = "bind"
        /\ ~FailedCall(Last(calls'))
        /\ container' = [container EXCEPT ![qs[i].Name] = convertedAns]
        /\ binds' = Append(binds, [q |-> i, name |-> qs[i].Name,
                                   value |-> convertedAns])
    /\ binds' # binds => container' = [container EXCEPT ![qs[i].Name] = convertedAns]
    /\ pc # "bind" => container' = container /\ binds' = binds
    /\ \A j \in 1..Len(binds') : binds'[j].q = j

\* C16: the container is changed only by bind, at most once per question and
\* only after the question's cleanup; every other step leaves it unchanged.
C16_ContainerOnlyByBind == [][C16_Step]_vars

\* C16's case: two questions bound, the container changed twice
C16_Witness ==
    /\ Len(binds) = 2
    /\ container[qs[1].Name] # Nil
    /\ container[qs[2].Name] # Nil

\* C19: in a question prompt() calls minus error() calls is 0 or 1; every
\* error() call reports the failed convert or validate call right before it
\* and is followed by one prompt() and then a convert or validate call; and
\* when the question reaches bind, prompt() calls = 1 + error() calls =
\* 1 + failed convert calls + failed validate calls.
C19_PromptErrorCounts ==
    LET P == Cardinality(CallsAt("prompt"))
        E == Cardinality(CallsAt("error"))
        F == Cardinality(FailsAt("convert")) + Cardinality(FailsAt("validate"))
    IN  /\ P - E \in {0, 1}
        /\ E <= F
        /\ F <= E + 1
        /\ BindCalled => P = 1 + E /\ E = F
        /\ \A n \in CallsAt("error") :
            /\ n > 1
            /\ calls[n - 1].op \in {"convert", "validate"}
            /\ FailedCall(calls[n - 1])
            /\ calls[n].arg = calls[n - 1].err
            /\ n + 1 <= Len(calls) => calls[n + 1].op = "prompt"
            /\ n + 2 <= Len(calls) => calls[n + 2].op = calls[n - 1].op
        /\ \A n \in CallsAt("convert") \cup CallsAt("validate") :
            /\ n > 1
            /\ ~FailedCall(calls[n - 1])
            /\ calls[n - 1].op \in {"prompt", "convert"}

\* C19's case: a question that reached bind after one failed conversion and
\* one failed validation
C19_Witness ==
    /\ BindCalled
    /\ Cardinality(FailsAt("convert")) = 1
    /\ Cardinality(FailsAt("validate")) = 1
    /\ Cardinality(CallsAt("prompt")) = 3

\* Ask is over: it has returned to its caller (AskOne has returned too)
Over == (entry = "Ask" /\ pc = "return") \/ pc = "done"

\* one step of a retry loop as C17 allows it: the loop goes round again
\* exactly when the convert or validate call has failed, it is left for the
\* next stage exactly when that call has succeeded, and it is left for a
\* return exactly when the error() or prompt() call of the retry has failed
C17_Step ==
    /\ pc \in {"convert", "validate"} =>
        /\ Last(calls').op = pc
        /\ FailedCall(Last(calls')) =>
              pc' = (IF pc = "convert" THEN "cerror" ELSE "verror")
        /\ ~FailedCall(Last(calls')) =>
              pc' = (IF pc = "convert" THEN AfterConvert(qs[i]) ELSE "cleanup")
    /\ pc \in {"cerror", "verror"} =>
        /\ Last(calls').op = "error"
        /\ FailedCall(Last(calls')) => pc' = "return" /\ ret' = Last(calls').err
        /\ ~FailedCall(Last(calls')) =>
              pc' = (IF pc = "cerror" THEN "cprompt" ELSE "vprompt")
    /\ pc \in {"cprompt", "vprompt"} =>
        /\ Last(calls').op = "prompt"
        /\ FailedCall(Last(calls')) => pc' = "return" /\ ret' = Last(calls').err
        /\ ~FailedCall(Last(calls')) =>
              pc' = (IF pc = "cprompt" THEN "convert" ELSE "validate")

\* no retry limit: whatever the number of retries so far, a convert or
\* validate call that fails once more is followed by one more retry
C17_NoLimit ==
    /\ (pc = "convert" /\ fails < MaxFail) => ENABLED (Convert /\ pc' = "cerror")
    /\ (pc = "validate" /\ fails < MaxFail) => ENABLED (Validate /\ pc' = "verror")

\* C17: a retry loop ends only when its call succeeds or a prompt()/error()
\* call aborts Ask, after however many retries; and when convert and validate
\* fail only finitely often and every call returns, Ask eventually returns.
C17_Terminates == [][C17_Step]_vars /\ []C17_NoLimit /\ <>Over

\* C17's case: Ask has returned nil after a question used up all the
\* failures its convert and validate calls can have
C17_Witness ==
    /\ Over
    /\ ret = Nil
    /\ fails = MaxFail
    /\ FailsAt("convert") # {}
    /\ FailsAt("validate") # {}

====
